---- MODULE Spec2Model ----
(***************************************************************************)
(* Erasure-coded storage simulator (genaro23/VDATASIM).                    *)
(*                                                                         *)
(* The main model is the 484-drive / 11-Dbox variant with rebuild          *)
(* (src/VDSimm2-5-26.py): the ErasureCodedStorage object (drive files,     *)
(* drive_status, ha_mode, stored_file_data) and the StorageGUI handlers    *)
(* that change it (toggle_drive, toggle_dbox, toggle_ha_mode).  A drive    *)
(* file is a sequence of bytes; the topology keeps the source's numbers.   *)
(* Only the drive size and the chunk size are scaled down.                 *)
(* Display state (drive_data_preview, widgets, progress callbacks) is not  *)
(* modelled.                                                               *)
(***************************************************************************)
EXTENDS Integers, Sequences, FiniteSets, TLC

\* ------------------------------------------------------------------------
\* Bounds of the model (not program constants)
\* ------------------------------------------------------------------------
\* bytes per chunk (4096 in the source)
ChunkBytes == 2
\* chunk slots per drive (1 MiB / 4 KiB = 256 in the source)
SlotsPerDrive == 4
\* operations per behaviour
MaxSteps == 4
\* write_files calls per behaviour when only writes are counted
MaxWrites == 2
\* worker threads alive at a time
MaxThreads == 2
\* GUI requests per behaviour when worker threads are modelled
MaxRequests == 3

\* ------------------------------------------------------------------------
\* Program constants, ErasureCodedStorage.__init__
\* ------------------------------------------------------------------------
total_drives == 484
chunk_size == ChunkBytes
drive_size == SlotsPerDrive * chunk_size
dboxes_count == 11
drives_per_dbox == 44
\* the literals of _configure_dboxes
data_drives_per_dbox == 38
local_groups_per_dbox == 3
local_group_stride == 13
global_parity_offset == 41
\* the literal of get_storage_stats and _write_data_ha_mode
ha_drives == 18
\* the literal of _calculate_ha_parity (start_drive = parity_idx * 9)
ha_parity_span == 9

Drives == 0..(total_drives - 1)
Dboxes == 0..(dboxes_count - 1)

\* ------------------------------------------------------------------------
\* Python list and bytes helpers
\* ------------------------------------------------------------------------
Min(a, b) == IF a < b THEN a ELSE b
Max(a, b) == IF a > b THEN a ELSE b

\* evaluate the loop state v before going on with e (loops are unrolled
\* front to back, as the interpreter runs them)
Then(v, e) == IF v = v THEN e ELSE e

\* a comprehension, built once as a list
List(s) == SelectSeq(s, LAMBDA x : TRUE)

\* list(range(a, b))
Range(a, b) == List([i \in 1..(b - a) |-> a + i - 1])

\* s[a:b] for 0 <= a
Slice(s, a, b) == SubSeq(s, a + 1, Min(b, Len(s)))

\* b'\x00' * n
Zeros(n) == List([i \in 1..n |-> 0])

\* bytes.ljust(n, b'\x00')
Ljust(s, n) == IF Len(s) >= n THEN s ELSE s \o Zeros(n - Len(s))

\* the elements of a list
Elems(s) == {s[i] : i \in 1..Len(s)}

\* d in list
In(d, s) == \E i \in 1..Len(s) : s[i] = d

\* struct.pack of an unsigned integer of w bytes, little-endian
RECURSIVE PackLE(_, _)
PackLE(v, w) == IF w = 0 THEN << >> ELSE <<v % 256>> \o PackLE(v \div 256, w - 1)

\* f.seek(off); f.read(n)
ReadAt(file, off, n) == Slice(file, off, off + n)

\* the file opened with 'wb' instead: what it held is dropped
WriteAt_truncating(file, off, bytes) == Zeros(off) \o bytes

\* open(path, 'r+b'); f.seek(off); f.write(bytes): a seek past the end of
\* the file leaves a hole of zero bytes
WriteAt(file, off, bytes) ==
    Ljust(Slice(file, 0, off), off) \o bytes
        \o Slice(file, off + Len(bytes), Len(file))

\* a ^ b on non-negative integers
RECURSIVE XorBits(_, _)
XorBits(a, b) ==
    IF a = 0 THEN b
    ELSE IF b = 0 THEN a
    ELSE ((a + b) % 2) + 2 * XorBits(a \div 2, b \div 2)

\* the table of a ^ b for bytes a, b (row a + 1, column b + 1)
XorTable ==
    List([a \in 1..256 |-> List([b \in 1..256 |-> XorBits(a - 1, b - 1)])])

\* numpy uint8 ^
BitXor(a, b) == XorTable[a + 1][b + 1]

\* ------------------------------------------------------------------------
\* Topology, ErasureCodedStorage._configure_dboxes
\* ------------------------------------------------------------------------
LocalGroup(base, i) ==
    LET start_idx == i * local_group_stride
        end_idx == Min(start_idx + local_group_stride, data_drives_per_dbox)
        local_parity_drives == Range(base + 38, base + 41)
    IN [data_drives |-> Slice(Range(base, base + 38), start_idx, end_idx),
        parity_drive |-> IF i < Len(local_parity_drives)
                         THEN local_parity_drives[i + 1] ELSE -1]

_configure_dboxes ==
    [dbox_id \in Dboxes |->
        LET base_drive == dbox_id * drives_per_dbox
        IN [id |-> dbox_id,
            data_drives |-> Range(base_drive, base_drive + 38),
            local_groups |-> [g \in 1..local_groups_per_dbox |->
                                 LocalGroup(base_drive, g - 1)],
            local_parity_drives |-> Range(base_drive + 38, base_drive + 41),
            global_parity_drive |-> base_drive + global_parity_offset,
            spare_drives |-> Range(base_drive + 42, base_drive + 44),
            all_drives |-> Range(base_drive, base_drive + 44)]]

dboxes == _configure_dboxes

RECURSIVE ConcatData(_)
ConcatData(n) ==
    IF n = 0 THEN << >> ELSE ConcatData(n - 1) \o dboxes[n - 1].data_drives

get_all_data_drives == ConcatData(dboxes_count)

\* get_dbox_for_drive dividing by the data drives of a Dbox instead of by
\* all its drives
get_dbox_for_drive_by_data(drive_id) == drive_id \div data_drives_per_dbox

get_dbox_for_drive(drive_id) == drive_id \div drives_per_dbox

get_drive_type(drive_id) ==
    IF \E b \in Dboxes : In(drive_id, dboxes[b].data_drives) THEN "Data"
    ELSE IF \E b \in Dboxes : In(drive_id, dboxes[b].local_parity_drives)
        THEN "Local Parity"
    ELSE IF \E b \in Dboxes : drive_id = dboxes[b].global_parity_drive
        THEN "Global Parity"
    ELSE IF \E b \in Dboxes : In(drive_id, dboxes[b].spare_drives)
        THEN "Hot Spare"
    ELSE "Unknown"

\* ------------------------------------------------------------------------
\* Parity engine
\* ------------------------------------------------------------------------
\* parity ^= chunk, elementwise
XorChunk(p, c) == List([i \in 1..Len(p) |-> BitXor(p[i], c[i])])

\* for chunk in data_chunks[lo:hi]: parity ^= chunk, in list order (the
\* range is halved to keep the evaluation shallow)
RECURSIVE XorFold(_, _, _, _)
XorFold(parity, data_chunks, lo, hi) ==
    IF hi <= lo THEN parity
    ELSE IF hi = lo + 1 THEN XorChunk(parity, data_chunks[lo + 1])
    ELSE LET mid == (lo + hi) \div 2
             first == XorFold(parity, data_chunks, lo, mid)
         IN Then(first, XorFold(first, data_chunks, mid, hi))

calculate_parity(data_chunks) ==
    XorFold(Zeros(chunk_size), data_chunks, 0, Len(data_chunks))

\* the chunks the parity loops collect at chunk_idx: one per listed drive
\* that is online and yields a full chunk
OnlineChunks(files, status, drive_list, chunk_idx) ==
    LET online == SelectSeq(drive_list, LAMBDA d : status[d])
        read == List([k \in 1..Len(online) |->
                    ReadAt(files[online[k]], chunk_idx * chunk_size, chunk_size)])
    IN SelectSeq(read, LAMBDA c : Len(c) = chunk_size)

\* parity_data += parity_chunk.tobytes() for chunk_idx in range(n)
JoinChunks(chunk_of, n) ==
    List([j \in 1..(n * chunk_size) |->
             chunk_of[(j - 1) \div chunk_size][((j - 1) % chunk_size) + 1]])

LocalParityData(files, status, group, chunks_per_drive) ==
    LET par == [idx \in 0..(chunks_per_drive - 1) |->
                   calculate_parity(
                       OnlineChunks(files, status, group.data_drives, idx))]
    IN Ljust(JoinChunks(par, chunks_per_drive), drive_size)

_calculate_local_parity_group(files, status, group, chunks_per_drive) ==
    IF group.parity_drive = -1 THEN files
    ELSE [files EXCEPT ![group.parity_drive] =
              LocalParityData(files, status, group, chunks_per_drive)]

\* weight = np.uint8((drive_id % 255) + 1);
\* np.remainder(chunk.astype(np.uint16) * weight, 256).astype(np.uint8)
Weighted(chunk, drive_id) ==
    LET weight == ((drive_id % 255) + 1) % 256
    IN List([i \in 1..Len(chunk) |-> ((chunk[i] * weight) % 65536) % 256])

WeightedOnlineChunks(files, status, drive_list, chunk_idx) ==
    LET online == SelectSeq(drive_list, LAMBDA d : status[d])
        full == SelectSeq(online, LAMBDA d :
                    Len(ReadAt(files[d], chunk_idx * chunk_size, chunk_size))
                        = chunk_size)
    IN List([k \in 1..Len(full) |->
                Weighted(ReadAt(files[full[k]], chunk_idx * chunk_size, chunk_size),
                         full[k])])

\* the global parity written one drive further on, to the first hot spare
_calculate_global_parity_dbox_on_spare(files, status, dbox, chunks_per_drive) ==
    LET par == [idx \in 0..(chunks_per_drive - 1) |->
                   calculate_parity(
                       WeightedOnlineChunks(files, status, dbox.data_drives, idx))]
    IN [files EXCEPT ![dbox.global_parity_drive + 1] =
           Ljust(JoinChunks(par, chunks_per_drive), drive_size)]

_calculate_global_parity_dbox(files, status, dbox, chunks_per_drive) ==
    LET par == [idx \in 0..(chunks_per_drive - 1) |->
                   calculate_parity(
                       WeightedOnlineChunks(files, status, dbox.data_drives, idx))]
    IN [files EXCEPT ![dbox.global_parity_drive] =
           Ljust(JoinChunks(par, chunks_per_drive), drive_size)]

\* ------------------------------------------------------------------------
\* Chunker / striper
\* ------------------------------------------------------------------------
\* header = struct.pack('I', len(filename_bytes)) + filename_bytes
\*          + struct.pack('Q', file_size);  combined_data += header + file_data
RECURSIVE PackFiles(_, _)
PackFiles(input_files, k) ==
    IF k > Len(input_files) THEN << >>
    ELSE LET f == input_files[k]
             header == PackLE(Len(f.name), 4) \o f.name \o PackLE(Len(f.data), 8)
         IN header \o f.data \o PackFiles(input_files, k + 1)

\* ((len + chunk_size - 1) // chunk_size) * chunk_size
PaddedSize(n) == ((n + chunk_size - 1) \div chunk_size) * chunk_size

get_storage_stats(ha, stored) ==
    LET total_capacity == IF ha THEN ha_drives * drive_size
                          ELSE Len(get_all_data_drives) * drive_size
        used_space == Len(stored)
    IN [total |-> total_capacity,
        used |-> used_space,
        available |-> total_capacity - used_space]

\* FillDrive with chunk_index advanced once per drive instead of once per
\* chunk: every slot of a drive gets the drive's first chunk
RECURSIVE FillDrive_once_per_drive(_, _, _, _, _)
FillDrive_once_per_drive(data, num_chunks, chunk_index, remaining, drive_data) ==
    IF remaining = 0
    THEN [drive_data |-> drive_data,
          chunk_index |-> chunk_index + (Len(drive_data) \div chunk_size)]
    ELSE IF chunk_index < num_chunks
        THEN FillDrive_once_per_drive(data, num_chunks, chunk_index,
                 remaining - 1,
                 drive_data \o Slice(data, chunk_index * chunk_size,
                                     chunk_index * chunk_size + chunk_size))
        ELSE FillDrive_once_per_drive(data, num_chunks, chunk_index,
                 remaining - 1, drive_data \o Zeros(chunk_size))

\* the inner loop of _write_data_normal_mode: chunks_per_drive chunks of one
\* drive, taken from data at chunk_index or zero once the data is used up
RECURSIVE FillDrive(_, _, _, _, _)
FillDrive(data, num_chunks, chunk_index, remaining, drive_data) ==
    IF remaining = 0 THEN [drive_data |-> drive_data, chunk_index |-> chunk_index]
    ELSE IF chunk_index < num_chunks
        THEN FillDrive(data, num_chunks, chunk_index + 1, remaining - 1,
                 drive_data \o Slice(data, chunk_index * chunk_size,
                                     chunk_index * chunk_size + chunk_size))
        ELSE FillDrive(data, num_chunks, chunk_index, remaining - 1,
                 drive_data \o Zeros(chunk_size))

\* one iteration of the outer loop of _write_data_normal_mode: st carries
\* the drive files and chunk_index
StripeDrive(st, data, num_chunks, chunks_per_drive, drive_id) ==
    LET r == FillDrive(data, num_chunks, st.chunk_index, chunks_per_drive, << >>)
    IN [files |-> [st.files EXCEPT ![drive_id] = Ljust(r.drive_data, drive_size)],
        chunk_index |-> r.chunk_index]

\* for drive_id in available_drives[lo:hi], in list order (the range is
\* halved to keep the evaluation shallow)
RECURSIVE StripeNormal(_, _, _, _, _, _, _)
StripeNormal(st, data, num_chunks, chunks_per_drive, available_drives, lo, hi) ==
    IF hi <= lo THEN st
    ELSE IF hi = lo + 1
    THEN StripeDrive(st, data, num_chunks, chunks_per_drive,
                     available_drives[lo + 1])
    ELSE LET mid == (lo + hi) \div 2
             first == StripeNormal(st, data, num_chunks, chunks_per_drive,
                                   available_drives, lo, mid)
         IN Then(first.chunk_index,
                 StripeNormal(first, data, num_chunks, chunks_per_drive,
                              available_drives, mid, hi))

\* for dbox in self.dboxes: for group in dbox['local_groups']: ..., the
\* groups numbered lo..hi-1 in loop order (the range is halved)
RECURSIVE AllLocalParity(_, _, _, _, _)
AllLocalParity(files, status, chunks_per_drive, lo, hi) ==
    IF hi <= lo THEN files
    ELSE IF hi = lo + 1
    THEN _calculate_local_parity_group(files, status,
             dboxes[lo \div local_groups_per_dbox]
                 .local_groups[(lo % local_groups_per_dbox) + 1],
             chunks_per_drive)
    ELSE LET mid == (lo + hi) \div 2
             first == AllLocalParity(files, status, chunks_per_drive, lo, mid)
         IN Then(first, AllLocalParity(first, status, chunks_per_drive, mid, hi))

\* for dbox in self.dboxes[lo:hi]: self._calculate_global_parity_dbox(...)
RECURSIVE AllGlobalParity(_, _, _, _, _)
AllGlobalParity(files, status, chunks_per_drive, lo, hi) ==
    IF hi <= lo THEN files
    ELSE IF hi = lo + 1
    THEN _calculate_global_parity_dbox(files, status, dboxes[lo], chunks_per_drive)
    ELSE LET mid == (lo + hi) \div 2
             first == AllGlobalParity(files, status, chunks_per_drive, lo, mid)
         IN Then(first, AllGlobalParity(first, status, chunks_per_drive, mid, hi))

\* Clear hot spares
ClearSpares(files) ==
    [d \in Drives |->
        IF \E b \in Dboxes : In(d, dboxes[b].spare_drives)
        THEN Zeros(drive_size) ELSE files[d]]

_write_data_normal_mode(files, status, data) ==
    LET num_chunks == Len(data) \div chunk_size
        available_drives == SelectSeq(get_all_data_drives, LAMBDA d : status[d])
    IN IF Len(available_drives) = 0
       THEN [ok |-> FALSE, msg |-> "No data drives available",
             files |-> files, used |-> << >>]
       ELSE LET chunks_per_drive ==
                    (num_chunks + Len(available_drives) - 1)
                        \div Len(available_drives)
                striped == StripeNormal([files |-> files, chunk_index |-> 0],
                               data, num_chunks, chunks_per_drive,
                               available_drives, 0, Len(available_drives)).files
                local == AllLocalParity(striped, status, chunks_per_drive, 0,
                                        dboxes_count * local_groups_per_dbox)
                global == AllGlobalParity(local, status, chunks_per_drive, 0,
                                          dboxes_count)
            IN [ok |-> TRUE, msg |-> "Wrote",
                files |-> ClearSpares(global), used |-> available_drives]

\* the stripe loops of _write_data_ha_mode: one pass over selected_drives
\* (the for loop, left by break once the data is used up)
RECURSIVE StripePass(_, _, _, _, _, _, _)
StripePass(files, data, num_chunks, selected_drives, k, stripe_index, chunk_index) ==
    IF k > Len(selected_drives) \/ ~(chunk_index < num_chunks)
    THEN [files |-> files, chunk_index |-> chunk_index]
    ELSE LET chunk_data == Slice(data, chunk_index * chunk_size,
                                 chunk_index * chunk_size + chunk_size)
             drive_id == selected_drives[k]
         IN StripePass(
                [files EXCEPT ![drive_id] =
                    WriteAt(files[drive_id], stripe_index * chunk_size, chunk_data)],
                data, num_chunks, selected_drives, k + 1, stripe_index,
                chunk_index + 1)

\* while chunk_index < num_chunks: <pass>; stripe_index += 1
RECURSIVE StripeHA(_, _, _, _, _, _)
StripeHA(files, data, num_chunks, selected_drives, stripe_index, chunk_index) ==
    IF ~(chunk_index < num_chunks)
    THEN [files |-> files, stripe_index |-> stripe_index]
    ELSE LET r == StripePass(files, data, num_chunks, selected_drives, 1,
                             stripe_index, chunk_index)
         IN StripeHA(r.files, data, num_chunks, selected_drives,
                     stripe_index + 1, r.chunk_index)

\* the chunks _calculate_ha_parity collects at stripe_idx: every listed
\* drive that yields a full chunk, whatever its status
StripeChunks(files, drive_list, stripe_idx) ==
    LET read == List([k \in 1..Len(drive_list) |->
                    ReadAt(files[drive_list[k]], stripe_idx * chunk_size, chunk_size)])
    IN SelectSeq(read, LAMBDA c : Len(c) = chunk_size)

HAParityData(files, drive_list, num_stripes) ==
    LET par == [idx \in 0..(num_stripes - 1) |->
                   calculate_parity(StripeChunks(files, drive_list, idx))]
    IN Ljust(JoinChunks(par, num_stripes), drive_size)

_calculate_ha_parity(files, data_drives, num_stripes) ==
    LET local_parity_drives == <<dboxes[0].local_parity_drives[1],
                                 dboxes[1].local_parity_drives[1]>>
        global_parity_drives == <<dboxes[2].global_parity_drive,
                                  dboxes[3].global_parity_drive>>
        l1 == [files EXCEPT ![local_parity_drives[1]] =
                  HAParityData(files, Slice(data_drives, 0, ha_parity_span),
                               num_stripes)]
        l2 == [l1 EXCEPT ![local_parity_drives[2]] =
                  HAParityData(l1, Slice(data_drives, ha_parity_span,
                                         ha_parity_span + ha_parity_span),
                               num_stripes)]
        g1 == [l2 EXCEPT ![global_parity_drives[1]] =
                  HAParityData(l2, data_drives, num_stripes)]
    IN [g1 EXCEPT ![global_parity_drives[2]] =
           HAParityData(g1, data_drives, num_stripes)]

\* for dbox in self.dboxes:
\*     available_in_dbox = [d for d in dbox['data_drives'][:2] if status[d]]
\*     selected_drives.extend(available_in_dbox[:2])
RECURSIVE SelectHA(_, _)
SelectHA(status, n) ==
    IF n = 0 THEN << >>
    ELSE LET available_in_dbox ==
                 SelectSeq(Slice(dboxes[n - 1].data_drives, 0, 2),
                           LAMBDA d : status[d])
         IN SelectHA(status, n - 1) \o Slice(available_in_dbox, 0, 2)

_write_data_ha_mode(files, status, data) ==
    LET num_chunks == Len(data) \div chunk_size
        found == SelectHA(status, dboxes_count)
    IN IF Len(found) < ha_drives
       THEN [ok |-> FALSE, msg |-> "HA mode requires 18 drives",
             files |-> files, used |-> found]
       ELSE LET selected_drives == Slice(found, 0, ha_drives)
                s == StripeHA(files, data, num_chunks, selected_drives, 0, 0)
            IN [ok |-> TRUE, msg |-> "HA Mode: Wrote",
                files |-> _calculate_ha_parity(s.files, selected_drives,
                                               s.stripe_index),
                used |-> selected_drives]

\* write_files with the capacity check made after the drives are written
write_files_late_check(files, status, ha, stored, input_files) ==
    IF Len(input_files) = 0
    THEN [ok |-> FALSE, msg |-> "No files selected", files |-> files,
          used |-> << >>, stored |-> stored]
    ELSE LET combined_data == PackFiles(input_files, 1)
             stats == get_storage_stats(ha, combined_data)
             padded == Ljust(combined_data, PaddedSize(Len(combined_data)))
             r == IF ha THEN _write_data_ha_mode(files, status, padded)
                  ELSE _write_data_normal_mode(files, status, padded)
         IN IF Len(combined_data) > stats.available
            THEN [ok |-> FALSE, msg |-> "Files too large", files |-> r.files,
                  used |-> << >>, stored |-> combined_data]
            ELSE [ok |-> r.ok, msg |-> r.msg, files |-> r.files,
                  used |-> r.used, stored |-> combined_data]

\* write_files: the result, the drive files and stored_file_data it leaves
write_files(files, status, ha, stored, input_files) ==
    IF Len(input_files) = 0
    THEN [ok |-> FALSE, msg |-> "No files selected", files |-> files,
          used |-> << >>, stored |-> stored]
    ELSE LET combined_data == PackFiles(input_files, 1)
             stats == get_storage_stats(ha, combined_data)
         IN IF Len(combined_data) > stats.available
            THEN [ok |-> FALSE, msg |-> "Files too large", files |-> files,
                  used |-> << >>, stored |-> combined_data]
            ELSE LET padded == Ljust(combined_data, PaddedSize(Len(combined_data)))
                     r == IF ha THEN _write_data_ha_mode(files, status, padded)
                          ELSE _write_data_normal_mode(files, status, padded)
                 IN [ok |-> r.ok, msg |-> r.msg, files |-> r.files,
                     used |-> r.used, stored |-> combined_data]

\* ------------------------------------------------------------------------
\* Recovery engine
\* ------------------------------------------------------------------------
\* RebuildChunks that reads the other data drives of the group whatever
\* their status
RebuildChunks_all_drives(files, status, failed_drive, group, chunk_idx) ==
    <<ReadAt(files[group.parity_drive], chunk_idx * chunk_size, chunk_size)>>
        \o OnlineChunks(files, [d \in Drives |-> d # failed_drive],
                        group.data_drives, chunk_idx)

\* one chunk of _rebuild_data_drive: the parity chunk (not length-checked)
\* and the full chunks of the other online data drives of the group
RebuildChunks(files, status, failed_drive, group, chunk_idx) ==
    <<ReadAt(files[group.parity_drive], chunk_idx * chunk_size, chunk_size)>>
        \o OnlineChunks(files, [status EXCEPT ![failed_drive] = FALSE],
                        group.data_drives, chunk_idx)

_rebuild_data_drive(files, status, failed_drive, group) ==
    LET chunks_per_drive == drive_size \div chunk_size
        reb == [idx \in 0..(chunks_per_drive - 1) |->
                   calculate_parity(
                       RebuildChunks(files, status, failed_drive, group, idx))]
        others == {d \in Elems(group.data_drives) :
                      /\ d # failed_drive
                      /\ status[d]
                      /\ \E idx \in 0..(chunks_per_drive - 1) :
                             Len(ReadAt(files[d], idx * chunk_size, chunk_size))
                                 = chunk_size}
    IN [files |-> [files EXCEPT ![failed_drive] =
                      JoinChunks(reb, chunks_per_drive)],
        drives_read |-> (IF chunks_per_drive > 0 THEN {group.parity_drive} ELSE {})
                            \cup others,
        opened |-> IF chunks_per_drive > 0
                   THEN {group.parity_drive}
                            \cup {d \in Elems(group.data_drives) :
                                     d # failed_drive /\ status[d]}
                   ELSE {}]

\* the group of the Dbox that lists the drive (data) or has it as parity
GroupOfData(dbox, drive_id) ==
    LET hits == SelectSeq(dbox.local_groups,
                          LAMBDA g : In(drive_id, g.data_drives))
    IN hits

GroupOfParity(dbox, drive_id) ==
    SelectSeq(dbox.local_groups, LAMBDA g : g.parity_drive = drive_id)

\* the drive files a parity loop over drive_list opens: the online ones
OpenedOnline(status, drive_list) == {d \in Elems(drive_list) : status[d]}

\* the body of the loop of rebuild_drives for a drive that is offline;
\* st.opened collects the drives whose files the iteration opens and reads
RebuildOffline(st, failed_drive, bring_online) ==
         LET dbox == dboxes[get_dbox_for_drive(failed_drive)]
             drive_type == get_drive_type(failed_drive)
             chunks_per_drive == drive_size \div chunk_size
             gd == GroupOfData(dbox, failed_drive)
             gp == GroupOfParity(dbox, failed_drive)
             r == _rebuild_data_drive(st.files, st.status, failed_drive, gd[1])
             done ==
                 IF drive_type = "Data" /\ Len(gd) > 0
                 THEN [files |-> r.files,
                       opened |-> st.opened \cup r.opened,
                       drives_read |-> st.drives_read \cup r.drives_read,
                       rebuild_info |-> Append(st.rebuild_info,
                           [drive |-> failed_drive, how |-> "Local rebuild",
                            n |-> Cardinality(r.drives_read)])]
                 ELSE IF drive_type = "Local Parity" /\ Len(gp) > 0
                 THEN [files |-> _calculate_local_parity_group(st.files,
                                     st.status, gp[1], chunks_per_drive),
                       opened |-> st.opened
                           \cup OpenedOnline(st.status, gp[1].data_drives),
                       drives_read |-> st.drives_read \cup Elems(gp[1].data_drives),
                       rebuild_info |-> Append(st.rebuild_info,
                           [drive |-> failed_drive, how |-> "Parity rebuild",
                            n |-> Len(gp[1].data_drives)])]
                 ELSE IF drive_type = "Global Parity"
                 THEN [files |-> _calculate_global_parity_dbox(st.files,
                                     st.status, dbox, chunks_per_drive),
                       opened |-> st.opened
                           \cup OpenedOnline(st.status, dbox.data_drives),
                       drives_read |-> st.drives_read \cup Elems(dbox.data_drives),
                       rebuild_info |-> Append(st.rebuild_info,
                           [drive |-> failed_drive, how |-> "Global parity rebuild",
                            n |-> Len(dbox.data_drives)])]
                 ELSE [files |-> st.files, opened |-> st.opened,
                       drives_read |-> st.drives_read,
                       rebuild_info |-> st.rebuild_info]
         IN [files |-> done.files,
             opened |-> done.opened,
             status |-> IF bring_online
                        THEN [st.status EXCEPT ![failed_drive] = TRUE]
                        ELSE st.status,
             drives_read |-> done.drives_read,
             rebuild_info |-> done.rebuild_info]

\* the loop body without the test of the drive's status
RebuildOne_any_status(st, failed_drive, bring_online) ==
    RebuildOffline(st, failed_drive, bring_online)

\* one iteration of the loop of rebuild_drives: a drive that is online is
\* passed over
RebuildOne(st, failed_drive, bring_online) ==
    IF st.status[failed_drive] THEN st
    ELSE RebuildOffline(st, failed_drive, bring_online)

\* for failed_drive in failed_drives[lo:hi], in list order (the range is
\* halved to keep the evaluation shallow)
RECURSIVE RebuildLoop(_, _, _, _, _)
RebuildLoop(st, failed_drives, lo, hi, bring_online) ==
    IF hi <= lo THEN st
    ELSE IF hi = lo + 1 THEN RebuildOne(st, failed_drives[lo + 1], bring_online)
    ELSE LET mid == (lo + hi) \div 2
             first == RebuildLoop(st, failed_drives, lo, mid, bring_online)
         IN Then(first.drives_read,
                 RebuildLoop(first, failed_drives, mid, hi, bring_online))

rebuild_drives(files, status, failed_drives, bring_online) ==
    RebuildLoop([files |-> files, status |-> status, opened |-> {},
                 drives_read |-> {}, rebuild_info |-> << >>],
                failed_drives, 0, Len(failed_drives), bring_online)

\* retrieve_file: the data and the message it returns (<< >> for None)
retrieve_file(stored) ==
    IF Len(stored) = 0
    THEN [data |-> << >>, message |-> "No file stored"]
    ELSE [data |-> stored, message |-> "File retrieved successfully"]

\* ------------------------------------------------------------------------
\* Integrity analyzer
\* ------------------------------------------------------------------------
RECURSIVE MaxGroupFailures(_, _, _, _)
MaxGroupFailures(status, groups, k, max_group_failures) ==
    IF k > Len(groups) THEN max_group_failures
    ELSE LET group_failures ==
                 Len(SelectSeq(groups[k].data_drives, LAMBDA d : ~status[d]))
         IN MaxGroupFailures(status, groups, k + 1,
                             Max(max_group_failures, group_failures))

\* VulnerableDboxes with the failures counted per Dbox instead of per
\* local group
RECURSIVE VulnerableDboxes_per_dbox(_, _, _)
VulnerableDboxes_per_dbox(status, offline_drives, n) ==
    IF n = 0 THEN << >>
    ELSE LET dbox == dboxes[n - 1]
             before == VulnerableDboxes_per_dbox(status, offline_drives, n - 1)
             data_failures == SelectSeq(dbox.data_drives, LAMBDA d : ~status[d])
         IN IF Len(data_failures) > 2 THEN Append(before, dbox.id) ELSE before

RECURSIVE VulnerableDboxes(_, _, _)
VulnerableDboxes(status, offline_drives, n) ==
    IF n = 0 THEN << >>
    ELSE LET dbox == dboxes[n - 1]
             before == VulnerableDboxes(status, offline_drives, n - 1)
             dbox_failures == SelectSeq(offline_drives,
                                        LAMBDA d : In(d, dbox.all_drives))
         IN IF Len(dbox_failures) = 0 THEN before
            ELSE IF MaxGroupFailures(status, dbox.local_groups, 1, 0) > 2
            THEN Append(before, dbox.id)
            ELSE before

check_data_integrity(status) ==
    LET offline_drives == SelectSeq(Range(0, total_drives), LAMBDA i : ~status[i])
        vulnerable_dboxes == VulnerableDboxes(status, offline_drives, dboxes_count)
    IN IF Len(offline_drives) = 0
       THEN [recoverable |-> TRUE, message |-> "All drives online",
             vulnerable |-> << >>]
       ELSE IF Len(vulnerable_dboxes) > 0
       THEN [recoverable |-> FALSE, message |-> "Data at risk",
             vulnerable |-> vulnerable_dboxes]
       ELSE [recoverable |-> TRUE, message |-> "Recoverable",
             vulnerable |-> << >>]

\* ------------------------------------------------------------------------
\* Inputs of the model
\* ------------------------------------------------------------------------
\* drives the operator clicks on: two data drives of group 0 of Dbox 0 and
\* that group's local-parity drive
ToggleDrives == {0, 1, 38}
\* the Dbox the operator switches as a whole
ToggleDboxes == {0}
\* the drive rebuild_drives is called for on its own
RebuildSingles == {0}

\* n non-zero bytes
Pattern(n, seed) == List([i \in 1..n |-> ((i * seed) % 255) + 1])

FileA == [name |-> <<97>>, data |-> <<17, 34, 51>>]
FileB == [name |-> <<98>>, data |-> Pattern(8 * chunk_size, 7)]
\* two small files: more chunks than one HA stripe, fewer than data drives
Small == <<FileA, FileB>>
\* one file of two more chunks than there are data drives, one byte short
\* of the chunk boundary once packed
Large == <<[name |-> <<99>>,
            data |-> Pattern((Len(get_all_data_drives) + 2) * chunk_size - 14, 3)]>>
\* one file of half the capacity of all data drives
Big == <<[name |-> <<100>>,
          data |-> Pattern((Len(get_all_data_drives) * drive_size) \div 2, 5)]>>

InputFiles == {Small, Large, Big}

\* ------------------------------------------------------------------------
\* The 156-drive / 4-Dnode variant (src/VDSimm-v1.1.py): topology and
\* integrity analyzer
\* ------------------------------------------------------------------------
total_drives_v11 == 156
num_data_drives_v11 == 142
local_group_count_v11 == 10
local_group_size_v11 == 14

Drives_v11 == 0..(total_drives_v11 - 1)

\* self.local_groups
local_groups_v11 ==
    [i \in 0..(local_group_count_v11 - 1) |->
        [data_drives |-> Range(i * local_group_size_v11,
                               i * local_group_size_v11 + local_group_size_v11),
         parity_drive |-> num_data_drives_v11 + i]]

\* self.global_parity_drives
global_parity_drives_v11 == <<152, 153>>

\* _configure_dnodes
dnodes_v11 ==
    [id \in 0..3 |->
        CASE id = 0 -> Range(0, 35) \o <<142, 143, 144, 152>> \o <<154>>
          [] id = 1 -> Range(35, 70) \o <<145, 146, 147, 153>> \o <<155>>
          [] id = 2 -> Range(70, 105) \o <<148, 149, 150>>
          [] id = 3 -> Range(105, 142) \o <<151>>]

\* the loop over self.local_groups of check_data_integrity: groups 0..n-1
RECURSIVE VulnerableGroups_v11(_, _)
VulnerableGroups_v11(status, n) ==
    IF n = 0 THEN << >>
    ELSE LET group == local_groups_v11[n - 1]
             before == VulnerableGroups_v11(status, n - 1)
             group_failures ==
                 Len(SelectSeq(group.data_drives, LAMBDA d : ~status[d]))
             parity_failed == ~status[group.parity_drive]
         IN IF group_failures > 1 \/ (group_failures = 1 /\ parity_failed)
            THEN Append(before, n - 1)
            ELSE before

check_data_integrity_v11(status) ==
    LET offline_drives ==
            SelectSeq(Range(0, total_drives_v11), LAMBDA i : ~status[i])
        vulnerable_groups == VulnerableGroups_v11(status, local_group_count_v11)
        global_parity_failures ==
            Len(SelectSeq(global_parity_drives_v11, LAMBDA gp : ~status[gp]))
    IN IF Len(offline_drives) = 0
       THEN [recoverable |-> TRUE, message |-> "All drives online",
             vulnerable |-> << >>]
       ELSE IF Len(vulnerable_groups) > 0 /\ global_parity_failures >= 2
       THEN [recoverable |-> FALSE, message |-> "Data loss in groups",
             vulnerable |-> vulnerable_groups]
       ELSE IF Len(vulnerable_groups) > 2
       THEN [recoverable |-> FALSE, message |-> "Too many group failures",
             vulnerable |-> vulnerable_groups]
       ELSE [recoverable |-> TRUE, message |-> "Recoverable with failures",
             vulnerable |-> vulnerable_groups]

\* ------------------------------------------------------------------------
\* The 156-drive variant: write_data
\* ------------------------------------------------------------------------
\* ((chunk * (drive_id + 1)) % 256).astype(np.uint8) on a uint8 array
Weighted_v11(chunk, drive_id) ==
    List([i \in 1..Len(chunk) |-> ((chunk[i] * (drive_id + 1)) % 256) % 256])

\* the weighted full chunks of the online data drives at chunk_idx
WeightedOnlineChunks_v11(files, status, drive_list, chunk_idx) ==
    LET online == SelectSeq(drive_list, LAMBDA d : status[d])
        full == SelectSeq(online, LAMBDA d :
                    Len(ReadAt(files[d], chunk_idx * chunk_size, chunk_size))
                        = chunk_size)
    IN List([k \in 1..Len(full) |->
                Weighted_v11(ReadAt(files[full[k]], chunk_idx * chunk_size,
                                    chunk_size),
                             full[k])])

_calculate_local_parity_v11(files, status, group, chunks_per_drive) ==
    [files EXCEPT ![group.parity_drive] =
        LocalParityData(files, status, group, chunks_per_drive)]

\* for group_id, group in enumerate(self.local_groups): groups 0..n-1
RECURSIVE AllLocalParity_v11(_, _, _, _)
AllLocalParity_v11(files, status, chunks_per_drive, n) ==
    IF n = 0 THEN files
    ELSE LET first == AllLocalParity_v11(files, status, chunks_per_drive, n - 1)
         IN Then(first, _calculate_local_parity_v11(first, status,
                            local_groups_v11[n - 1], chunks_per_drive))

_calculate_global_parity_v11(files, status, chunks_per_drive) ==
    LET all_data == Range(0, num_data_drives_v11)
        par0 == [idx \in 0..(chunks_per_drive - 1) |->
                    calculate_parity(OnlineChunks(files, status, all_data, idx))]
        f0 == [files EXCEPT ![global_parity_drives_v11[1]] =
                  Ljust(JoinChunks(par0, chunks_per_drive), drive_size)]
        par1 == [idx \in 0..(chunks_per_drive - 1) |->
                    calculate_parity(
                        WeightedOnlineChunks_v11(f0, status, all_data, idx))]
    IN [f0 EXCEPT ![global_parity_drives_v11[2]] =
           Ljust(JoinChunks(par1, chunks_per_drive), drive_size)]

\* self.hot_spare_drives
hot_spare_drives_v11 == <<154, 155>>

\* write_data: the result and the drive files it leaves
write_data_v11(files, status, file_data) ==
    LET total_capacity == num_data_drives_v11 * drive_size
    IN IF Len(file_data) > total_capacity
       THEN [ok |-> FALSE, msg |-> "File too large", files |-> files]
       ELSE LET data == Ljust(file_data, PaddedSize(Len(file_data)))
                num_chunks == Len(data) \div chunk_size
                chunks_per_drive ==
                    (num_chunks + num_data_drives_v11 - 1)
                        \div num_data_drives_v11
                striped == StripeNormal([files |-> files, chunk_index |-> 0],
                               data, num_chunks, chunks_per_drive,
                               Range(0, num_data_drives_v11), 0,
                               num_data_drives_v11).files
                local == AllLocalParity_v11(striped, status, chunks_per_drive,
                                            local_group_count_v11)
                global == _calculate_global_parity_v11(local, status,
                                                       chunks_per_drive)
            IN [ok |-> TRUE, msg |-> "Data written successfully",
                files |-> [d \in Drives_v11 |->
                              IF In(d, hot_spare_drives_v11)
                              THEN Zeros(drive_size) ELSE global[d]]]

\* rebuild_drive: the drive files it leaves
rebuild_drive_v11(files, status, failed_drive) ==
    LET chunks_per_drive == drive_size \div chunk_size
        as_data == {i \in 0..(local_group_count_v11 - 1) :
                       In(failed_drive, local_groups_v11[i].data_drives)}
        as_parity == {i \in 0..(local_group_count_v11 - 1) :
                         local_groups_v11[i].parity_drive = failed_drive}
    IN IF as_data # {}
       THEN _rebuild_data_drive(files, status, failed_drive,
                local_groups_v11[CHOOSE i \in as_data :
                                    \A j \in as_data : i <= j]).files
       ELSE IF as_parity # {}
       THEN _calculate_local_parity_v11(files, status,
                local_groups_v11[CHOOSE i \in as_parity :
                                    \A j \in as_parity : i <= j],
                chunks_per_drive)
       ELSE IF In(failed_drive, global_parity_drives_v11)
       THEN _calculate_global_parity_v11(files, status, chunks_per_drive)
       ELSE files

\* the files the operator stores: fewer chunks than data drives, two more
\* chunks than data drives, one byte more than the data drives hold
InputFiles_v11 ==
    {Pattern(8 * chunk_size, 7),
     Pattern((num_data_drives_v11 + 2) * chunk_size - 1, 3),
     Pattern(num_data_drives_v11 * drive_size + 1, 5)}

\* ------------------------------------------------------------------------
\* State
\* ------------------------------------------------------------------------
VARIABLES
    drive_files,       \* contents of the file behind self.drives[i]
    drive_status,      \* self.drive_status
    dbox_enabled,      \* StorageGUI.dbox_enabled
    ha_mode,           \* self.ha_mode
    stored_file_data,  \* self.stored_file_data (<< >> for None)
    status_label,      \* text of StorageGUI.status_label
    held,              \* history: contents of a drive when it last went offline
    last,              \* history: the last operation and what it returned
    steps,             \* history: counted operations so far
    rebuilt,           \* what the last rebuild_drives call returned and which
                       \* drive files it read
    threads,           \* the write_thread / rebuild_thread workers the GUI
                       \* has started and not yet seen complete
    probe,             \* the drive id last looked up and what the lookups
                       \* returned
    drive_status_v11,  \* 156-drive variant: self.drive_status
    analyzer,          \* 156-drive variant: the main thread inside
                       \* check_dnode_failure_impact (pc, original_status)
    worker,            \* 156-drive variant: the rebuild_animation thread
                       \* (pc, offline_drives, i)
    shadow_status,     \* history: drive_status_v11 as toggles and the worker
                       \* alone have set it
    observed_marking,  \* history: the worker has read a flag the analyzer
                       \* had marked
    drive_files_v11,   \* 156-drive variant: contents of the drive files
    last_v11           \* 156-drive variant, history: the last operation

vars484 == <<drive_files, drive_status, dbox_enabled, ha_mode, stored_file_data,
             status_label, held, last, steps, rebuilt>>

vars156 == <<drive_status_v11, analyzer, worker, shadow_status, observed_marking,
             drive_files_v11, last_v11>>

vars == <<vars484, vars156, threads, probe>>

\* what the handlers of the 484-drive object leave alone when no worker
\* thread is modelled
idle484 == <<vars156, threads, probe>>

\* what the threads of the 156-drive variant leave alone
idle156 == <<vars484, threads, probe, drive_files_v11, last_v11>>

\* no tooltip is showing
NoTooltip == [variant |-> "", drive_id |-> -1, drive_type |-> "", dbox_id |-> -1]

\* worker threads of one run (threading.Thread has no limit)
Slots == 1..MaxThreads

\* a slot without a thread
NoThread ==
    [kind |-> "none", pc |-> "none", input |-> << >>, chunks_per_drive |-> 0,
     failed_drives |-> << >>, i |-> 0, bring_online |-> FALSE,
     drives_read |-> {}, rebuild_info |-> << >>, opened |-> {},
     ok |-> FALSE, msg |-> "", used |-> << >>,
     expected |-> << >>, overlapped |-> FALSE]

Last(op, ok, msg, used, arg, flag, read) ==
    [op |-> op, ok |-> ok, msg |-> msg, used |-> used, arg |-> arg,
     flag |-> flag, read |-> read]

\* ErasureCodedStorage.__init__, StorageGUI.__init__ and initialize_drives
Init ==
    /\ drive_files = [d \in Drives |-> Zeros(drive_size)]
    /\ drive_status = [d \in Drives |-> TRUE]
    /\ dbox_enabled = [b \in Dboxes |-> TRUE]
    /\ ha_mode = FALSE
    /\ stored_file_data = << >>
    /\ status_label = "Ready"
    /\ held = [d \in Drives |-> Zeros(drive_size)]
    /\ last = Last("init", TRUE, "", << >>, << >>, FALSE, {})
    /\ steps = 0
    /\ rebuilt = [drives_read |-> {}, rebuild_info |-> << >>, opened |-> {}]
    /\ threads = [t \in Slots |-> NoThread]
    /\ probe = NoTooltip
    /\ drive_files_v11 = [d \in Drives_v11 |-> Zeros(drive_size)]
    /\ last_v11 = [op |-> "init", ok |-> TRUE]
    /\ drive_status_v11 = [d \in Drives_v11 |-> TRUE]
    /\ analyzer = [pc |-> "idle", dnode_id |-> -1, original_status |-> << >>,
                   result |-> << >>]
    /\ worker = [pc |-> "idle", offline_drives |-> << >>, i |-> 0]
    /\ shadow_status = [d \in Drives_v11 |-> TRUE]
    /\ observed_marking = FALSE

\* the contents recorded for the drives that go offline in this step
Hold(status_after) ==
    [d \in Drives |->
        IF drive_status[d] /\ ~status_after[d] THEN drive_files[d] ELSE held[d]]

\* toggle_drive that also truncates the file of a drive going offline
ToggleDrive_truncating(drive_id) ==
    \E status_after \in
           {[drive_status EXCEPT ![drive_id] = ~drive_status[drive_id]]} :
        /\ drive_status' = status_after
        /\ drive_files' =
               [drive_files EXCEPT ![drive_id] =
                   IF status_after[drive_id] THEN @ ELSE Zeros(drive_size)]
        /\ status_label' = check_data_integrity(status_after).message
        /\ held' = Hold(status_after)
        /\ last' = Last("toggle_drive", TRUE, "", << >>, << >>, FALSE, {})
        /\ UNCHANGED <<dbox_enabled, ha_mode, stored_file_data, rebuilt>>

\* StorageGUI.toggle_drive
ToggleDrive(drive_id) ==
    \E status_after \in
           {[drive_status EXCEPT ![drive_id] = ~drive_status[drive_id]]} :
        /\ drive_status' = status_after
        /\ status_label' = check_data_integrity(status_after).message
        /\ held' = Hold(status_after)
        /\ last' = Last("toggle_drive", TRUE, "", << >>, << >>, FALSE, {})
        /\ UNCHANGED <<drive_files, dbox_enabled, ha_mode, stored_file_data, rebuilt>>

\* StorageGUI.toggle_dbox
ToggleDbox(dbox_id) ==
    \E status_after \in
           {[d \in Drives |->
                IF In(d, dboxes[dbox_id].all_drives)
                THEN ~dbox_enabled[dbox_id] ELSE drive_status[d]]} :
        /\ dbox_enabled' = [dbox_enabled EXCEPT ![dbox_id] = ~dbox_enabled[dbox_id]]
        /\ drive_status' = status_after
        /\ status_label' = check_data_integrity(status_after).message
        /\ held' = Hold(status_after)
        /\ last' = Last("toggle_dbox", TRUE, "", << >>, << >>, FALSE, {})
        /\ UNCHANGED <<drive_files, ha_mode, stored_file_data, rebuilt>>

\* StorageGUI.toggle_ha_mode
ToggleHA ==
    /\ ha_mode' = ~ha_mode
    /\ status_label' = IF ha_mode' THEN "HA Mode ENABLED" ELSE "HA Mode DISABLED"
    /\ last' = Last("toggle_ha_mode", TRUE, "", << >>, << >>, FALSE, {})
    /\ UNCHANGED <<drive_files, drive_status, dbox_enabled, stored_file_data, held,
                   rebuilt>>

\* ErasureCodedStorage.write_files, then StorageGUI.write_complete; last.flag
\* is the mode of the write
WriteFiles(input_files) ==
    \E r \in {write_files(drive_files, drive_status, ha_mode, stored_file_data,
                          input_files)} :
        /\ drive_files' = r.files
        /\ stored_file_data' = r.stored
        /\ status_label' = r.msg
        /\ last' = Last("write_files", r.ok, r.msg, r.used, input_files, ha_mode, {})
        /\ UNCHANGED <<drive_status, dbox_enabled, ha_mode, held, rebuilt>>

\* the lists rebuild_drives is called with: one drive, or (StorageGUI
\* .rebuild_drives) every offline drive in ascending order
RebuildLists ==
    {<<d>> : d \in RebuildSingles}
        \cup {SelectSeq(Range(0, total_drives), LAMBDA i : ~drive_status[i])}

\* ErasureCodedStorage.rebuild_drives, then StorageGUI.rebuild_complete;
\* last.flag is bring_online
RebuildDrives(failed_drives, bring_online) ==
    /\ Len(failed_drives) > 0
    /\ \E r \in {rebuild_drives(drive_files, drive_status, failed_drives,
                                bring_online)} :
        /\ drive_files' = r.files
        /\ drive_status' = r.status
        /\ status_label' = "Rebuild complete"
        /\ last' = Last("rebuild_drives", TRUE, "", << >>, failed_drives,
                        bring_online, r.drives_read)
        /\ rebuilt' = [drives_read |-> r.drives_read,
                       rebuild_info |-> r.rebuild_info, opened |-> r.opened]
        /\ UNCHANGED <<dbox_enabled, ha_mode, stored_file_data, held>>

\* every operation counts as a step
Counted == steps < MaxSteps /\ steps' = steps + 1 /\ UNCHANGED idle484

Next ==
    \/ \E d \in ToggleDrives : Counted /\ ToggleDrive(d)
    \/ \E b \in ToggleDboxes : Counted /\ ToggleDbox(b)
    \/ Counted /\ ToggleHA
    \/ \E f \in InputFiles : Counted /\ WriteFiles(f)
    \/ \E l \in RebuildLists : \E bring_online \in BOOLEAN :
           Counted /\ RebuildDrives(l, bring_online)

Spec == Init /\ [][Next]_vars

\* ------------------------------------------------------------------------
\* Outages: whole Dboxes go out one after the other, writes are counted
\* ------------------------------------------------------------------------
\* the next Dbox to go out
DboxOut(dbox_id) ==
    /\ dbox_enabled[dbox_id]
    /\ \A b \in Dboxes : b < dbox_id => ~dbox_enabled[b]
    /\ ToggleDbox(dbox_id)

OutageFiles == {Small, Big}

\* only writes count
CountedWrite == steps < MaxWrites /\ steps' = steps + 1 /\ UNCHANGED idle484

NextOutage ==
    \/ \E b \in Dboxes : DboxOut(b) /\ UNCHANGED <<steps, idle484>>
    \/ ToggleHA /\ UNCHANGED <<steps, idle484>>
    \/ \E f \in OutageFiles : CountedWrite /\ WriteFiles(f)

SpecOutage == Init /\ [][NextOutage]_vars

\* ------------------------------------------------------------------------
\* Degraded writes: a file of more chunks than there are data drives is
\* written while whole Dboxes are out
\* ------------------------------------------------------------------------
DegradedFiles == {Large}

NextDegraded ==
    \/ \E b \in Dboxes : DboxOut(b) /\ UNCHANGED <<steps, idle484>>
    \/ ToggleHA /\ UNCHANGED <<steps, idle484>>
    \/ \E f \in DegradedFiles : CountedWrite /\ WriteFiles(f)

SpecDegraded == Init /\ [][NextDegraded]_vars

\* ------------------------------------------------------------------------
\* Status assignments: drives and Dboxes are toggled at will, nothing is
\* written
\* ------------------------------------------------------------------------
\* three data drives of group 0 and one of group 1 of Dbox 0, its first
\* local-parity drive, three data drives of group 1 of Dbox 1
StatusDrives == {0, 1, 2, 13, 38, 57, 58, 59}
StatusDboxes == {10}

NextStatus ==
    \/ \E d \in StatusDrives : ToggleDrive(d) /\ UNCHANGED <<steps, idle484>>
    \/ \E b \in StatusDboxes : ToggleDbox(b) /\ UNCHANGED <<steps, idle484>>

SpecStatus == Init /\ [][NextStatus]_vars

\* ------------------------------------------------------------------------
\* The 484-drive GUI with its worker threads: load_files and rebuild_drives
\* start a threading.Thread each and return; the main thread goes on
\* handling clicks while the workers run.  A worker's step is one loop of
\* the method it runs.
\* ------------------------------------------------------------------------
\* drives the operator clicks on while workers run
ThreadToggles == {0, 1}
ThreadFiles == {Small}

\* thread t is started in the lowest free slot; threads alive together are
\* marked as overlapping
StartThread(t, rec) ==
    /\ threads[t].kind = "none"
    /\ \A u \in Slots : u < t => threads[u].kind # "none"
    /\ threads' =
           [u \in Slots |->
               IF u = t
               THEN [rec EXCEPT !.overlapped =
                        \E v \in Slots : v # t /\ threads[v].kind # "none"]
               ELSE IF threads[u].kind # "none"
               THEN [threads[u] EXCEPT !.overlapped = TRUE]
               ELSE threads[u]]

\* StorageGUI.load_files: threading.Thread(target=write_thread).start()
load_files(input_files) ==
    /\ \E t \in Slots :
           StartThread(t, [NoThread EXCEPT !.kind = "write", !.pc = "begin",
                                           !.input = input_files])
    /\ status_label' = "Writing files..."
    /\ UNCHANGED <<drive_files, drive_status, dbox_enabled, ha_mode,
                   stored_file_data, held, last, rebuilt>>

\* write_files from its first line to the end of the striping loop of
\* _write_data_normal_mode (an HA-mode write and a refused write run to
\* their return); whole is the result of the whole call when nothing else
\* runs, and expected is what the drives hold after it
WriteStripe(whole, files, ha, input_files) ==
       IF ~whole.ok \/ ha
       THEN [pc |-> "done", ok |-> whole.ok, msg |-> whole.msg,
             files |-> whole.files, stored |-> whole.stored,
             used |-> whole.used, chunks_per_drive |-> 0,
             expected |-> whole.files]
       ELSE LET combined_data == PackFiles(input_files, 1)
                data == Ljust(combined_data, PaddedSize(Len(combined_data)))
                num_chunks == Len(data) \div chunk_size
                available_drives == whole.used
                chunks_per_drive ==
                    (num_chunks + Len(available_drives) - 1)
                        \div Len(available_drives)
            IN [pc |-> "local", ok |-> TRUE, msg |-> whole.msg,
                files |-> StripeNormal([files |-> files, chunk_index |-> 0],
                              data, num_chunks, chunks_per_drive,
                              available_drives, 0, Len(available_drives)).files,
                stored |-> whole.stored, used |-> available_drives,
                chunks_per_drive |-> chunks_per_drive,
                expected |-> whole.files]

\* write_thread: write_files up to the local parity loop
write_stripe(t) ==
    /\ threads[t].kind = "write"
    /\ threads[t].pc = "begin"
    /\ \E whole \in {write_files(drive_files, drive_status, ha_mode,
                                 stored_file_data, threads[t].input)} :
       \E r \in {WriteStripe(whole, drive_files, ha_mode, threads[t].input)} :
          /\ drive_files' = r.files
          /\ stored_file_data' = r.stored
          /\ threads' = [threads EXCEPT ![t] =
                 [@ EXCEPT !.pc = r.pc, !.ok = r.ok, !.msg = r.msg,
                           !.used = r.used,
                           !.chunks_per_drive = r.chunks_per_drive,
                           !.expected = r.expected]]
    /\ UNCHANGED <<drive_status, dbox_enabled, ha_mode, status_label, held,
                   last, rebuilt>>

\* write_thread: the local parity loop of _write_data_normal_mode
write_local_parity(t) ==
    /\ threads[t].kind = "write"
    /\ threads[t].pc = "local"
    /\ drive_files' = AllLocalParity(drive_files, drive_status,
                          threads[t].chunks_per_drive, 0,
                          dboxes_count * local_groups_per_dbox)
    /\ threads' = [threads EXCEPT ![t].pc = "global"]
    /\ UNCHANGED <<drive_status, dbox_enabled, ha_mode, stored_file_data,
                   status_label, held, last, rebuilt>>

\* write_thread: the global parity loop and the clearing of the hot spares
write_global_parity(t) ==
    /\ threads[t].kind = "write"
    /\ threads[t].pc = "global"
    /\ drive_files' = ClearSpares(AllGlobalParity(drive_files, drive_status,
                          threads[t].chunks_per_drive, 0, dboxes_count))
    /\ threads' = [threads EXCEPT ![t].pc = "done"]
    /\ UNCHANGED <<drive_status, dbox_enabled, ha_mode, stored_file_data,
                   status_label, held, last, rebuilt>>

\* StorageGUI.write_complete, queued by write_thread with root.after
write_complete(t) ==
    /\ threads[t].kind = "write"
    /\ threads[t].pc = "done"
    /\ status_label' = threads[t].msg
    /\ last' = Last("write_files", threads[t].ok, threads[t].msg,
                    threads[t].used, threads[t].input, ha_mode, {})
    /\ threads' = [threads EXCEPT ![t] = NoThread]
    /\ UNCHANGED <<drive_files, drive_status, dbox_enabled, ha_mode,
                   stored_file_data, held, rebuilt>>

\* StorageGUI.rebuild_drives: threading.Thread(target=rebuild_thread).start()
gui_rebuild_drives(bring_online) ==
    /\ \E offline_drives \in
             {SelectSeq(Range(0, total_drives), LAMBDA i : ~drive_status[i])} :
          /\ Len(offline_drives) > 0
          /\ \E expected \in {rebuild_drives(drive_files, drive_status,
                                    offline_drives, bring_online).files} :
             \E t \in Slots :
                 StartThread(t,
                     [NoThread EXCEPT
                         !.kind = "rebuild", !.pc = "loop",
                         !.failed_drives = offline_drives, !.i = 1,
                         !.bring_online = bring_online,
                         !.expected = expected])
    /\ status_label' = "Rebuilding..."
    /\ UNCHANGED <<drive_files, drive_status, dbox_enabled, ha_mode,
                   stored_file_data, held, last, rebuilt>>

\* rebuild_thread: one iteration of the loop of rebuild_drives
rebuild_step(t) ==
    /\ threads[t].kind = "rebuild"
    /\ threads[t].pc = "loop"
    /\ \E r \in {RebuildOne([files |-> drive_files, status |-> drive_status,
                             opened |-> threads[t].opened,
                             drives_read |-> threads[t].drives_read,
                             rebuild_info |-> threads[t].rebuild_info],
                            threads[t].failed_drives[threads[t].i],
                            threads[t].bring_online)} :
          /\ drive_files' = r.files
          /\ drive_status' = r.status
          /\ threads' = [threads EXCEPT ![t] =
                 [@ EXCEPT !.opened = r.opened,
                           !.drives_read = r.drives_read,
                           !.rebuild_info = r.rebuild_info,
                           !.i = @ + 1,
                           !.pc = IF threads[t].i < Len(threads[t].failed_drives)
                                  THEN "loop" ELSE "done"]]
    /\ UNCHANGED <<dbox_enabled, ha_mode, stored_file_data, status_label, held,
                   last, rebuilt>>

\* StorageGUI.rebuild_complete, queued by rebuild_thread with root.after
rebuild_complete(t) ==
    /\ threads[t].kind = "rebuild"
    /\ threads[t].pc = "done"
    /\ status_label' = "Rebuild complete"
    /\ last' = Last("rebuild_drives", TRUE, "", << >>, threads[t].failed_drives,
                    threads[t].bring_online, threads[t].drives_read)
    /\ rebuilt' = [drives_read |-> threads[t].drives_read,
                   rebuild_info |-> threads[t].rebuild_info,
                   opened |-> threads[t].opened]
    /\ threads' = [threads EXCEPT ![t] = NoThread]
    /\ UNCHANGED <<drive_files, drive_status, dbox_enabled, ha_mode,
                   stored_file_data, held>>

\* a click of the operator counts, a step of a worker does not
Request == steps < MaxRequests /\ steps' = steps + 1 /\ UNCHANGED <<vars156, probe>>

Work == UNCHANGED <<steps, vars156, probe>>

NextThreads ==
    \/ \E d \in ThreadToggles : Request /\ ToggleDrive(d) /\ UNCHANGED threads
    \/ \E f \in ThreadFiles : Request /\ load_files(f)
    \/ \E bring_online \in BOOLEAN : Request /\ gui_rebuild_drives(bring_online)
    \/ \E t \in Slots : Work /\ write_stripe(t)
    \/ \E t \in Slots : Work /\ write_local_parity(t)
    \/ \E t \in Slots : Work /\ write_global_parity(t)
    \/ \E t \in Slots : Work /\ write_complete(t)
    \/ \E t \in Slots : Work /\ rebuild_step(t)
    \/ \E t \in Slots : Work /\ rebuild_complete(t)

SpecThreads == Init /\ [][NextThreads]_vars

\* ------------------------------------------------------------------------
\* Lookups in the topology: the pointer enters the button of a drive and
\* the tooltip shows the drive's type and Dbox
\* ------------------------------------------------------------------------
\* StorageGUI.create_tooltip.on_enter
on_enter(drive_id) ==
    /\ probe = NoTooltip
    /\ probe' = [variant |-> "484", drive_id |-> drive_id,
                 drive_type |-> get_drive_type(drive_id),
                 dbox_id |-> get_dbox_for_drive(drive_id)]
    /\ UNCHANGED <<vars484, vars156, threads>>

\* StorageGUI.create_tooltip.on_leave
on_leave ==
    /\ probe.variant = "484"
    /\ probe' = NoTooltip
    /\ UNCHANGED <<vars484, vars156, threads>>

\* 156-drive variant: ErasureCodedStorage.get_drive_type
get_drive_type_v11(drive_id) ==
    IF drive_id < 142
    THEN LET hits == {i \in 0..(local_group_count_v11 - 1) :
                         In(drive_id, local_groups_v11[i].data_drives)}
         IN IF hits # {}
            THEN "Data (Group "
                     \o ToString(CHOOSE i \in hits : \A j \in hits : i <= j)
                     \o ")"
            ELSE "Data"
    ELSE IF 142 <= drive_id /\ drive_id <= 151
    THEN "Local Parity " \o ToString(drive_id - 142)
    ELSE IF In(drive_id, global_parity_drives_v11)
    THEN "Global Parity " \o ToString(drive_id - 152)
    ELSE IF In(drive_id, hot_spare_drives_v11)
    THEN "Hot Spare " \o ToString(drive_id - 154)
    ELSE "Unknown"

\* 156-drive variant: ErasureCodedStorage.get_dnode_for_drive (-1 for None)
get_dnode_for_drive_v11(drive_id) ==
    LET hits == {id \in 0..3 : In(drive_id, dnodes_v11[id])}
    IN IF hits # {} THEN CHOOSE id \in hits : \A j \in hits : id <= j ELSE -1

\* 156-drive variant: StorageGUI.create_tooltip.on_enter
on_enter_v11(drive_id) ==
    /\ probe = NoTooltip
    /\ probe' = [variant |-> "156", drive_id |-> drive_id,
                 drive_type |-> get_drive_type_v11(drive_id),
                 dbox_id |-> get_dnode_for_drive_v11(drive_id)]
    /\ UNCHANGED <<vars484, vars156, threads>>

\* 156-drive variant: StorageGUI.create_tooltip.on_leave
on_leave_v11 ==
    /\ probe.variant = "156"
    /\ probe' = NoTooltip
    /\ UNCHANGED <<vars484, vars156, threads>>

NextTopology ==
    \/ \E drive_id \in Drives : on_enter(drive_id)
    \/ on_leave
    \/ \E drive_id \in Drives_v11 : on_enter_v11(drive_id)
    \/ on_leave_v11

SpecTopology == Init /\ [][NextTopology]_vars

\* ------------------------------------------------------------------------
\* The 156-drive variant: the GUI main thread and the rebuild_animation
\* thread.  The main thread runs one handler at a time; the worker thread
\* runs between any two steps of check_dnode_failure_impact.
\* ------------------------------------------------------------------------
\* drives the operator clicks on: three data drives of group 0, one of
\* group 1
ToggleDrives_v11 == {0, 1, 2, 14}
\* the Dnode test_dnode_failure is asked about
TestDnodes_v11 == {0}

\* StorageGUI.toggle_drive
toggle_drive_v11(drive_id) ==
    /\ analyzer.pc = "idle"
    /\ drive_status_v11' =
           [drive_status_v11 EXCEPT ![drive_id] = ~drive_status_v11[drive_id]]
    /\ shadow_status' =
           [shadow_status EXCEPT ![drive_id] = ~drive_status_v11[drive_id]]
    /\ UNCHANGED <<analyzer, worker, observed_marking>>

\* StorageGUI.rebuild_all up to thread.start()
rebuild_all_v11 ==
    /\ analyzer.pc = "idle"
    /\ worker.pc = "idle"
    /\ \E offline_drives \in
             {SelectSeq(Range(0, total_drives_v11),
                        LAMBDA i : ~drive_status_v11[i])} :
          /\ Len(offline_drives) > 0
          /\ check_data_integrity_v11(drive_status_v11).recoverable
          /\ worker' = [pc |-> "rebuild", offline_drives |-> offline_drives,
                        i |-> 1]
    /\ UNCHANGED <<drive_status_v11, analyzer, shadow_status, observed_marking>>

\* the data drives whose flag rebuild_drive reads for failed_drive
\* (_rebuild_using_local_parity, _calculate_local_parity,
\* _calculate_global_parity)
StatusRead_v11(failed_drive) ==
    IF failed_drive < num_data_drives_v11
    THEN Elems(local_groups_v11[failed_drive \div local_group_size_v11]
                   .data_drives) \ {failed_drive}
    ELSE IF failed_drive < num_data_drives_v11 + local_group_count_v11
    THEN Elems(local_groups_v11[failed_drive - num_data_drives_v11].data_drives)
    ELSE IF In(failed_drive, global_parity_drives_v11)
    THEN 0..(num_data_drives_v11 - 1)
    ELSE {}

\* rebuild_animation: self.storage.rebuild_drive(drive_id)
worker_rebuild_drive ==
    /\ worker.pc = "rebuild"
    /\ observed_marking' =
           (observed_marking
               \/ \E d \in StatusRead_v11(worker.offline_drives[worker.i]) :
                      drive_status_v11[d] # shadow_status[d])
    /\ worker' = [worker EXCEPT !.pc = "online"]
    /\ UNCHANGED <<drive_status_v11, analyzer, shadow_status>>

\* rebuild_animation: self.storage.drive_status[drive_id] = True, then the
\* next drive of the list
worker_bring_online ==
    /\ worker.pc = "online"
    /\ \E drive_id \in {worker.offline_drives[worker.i]} :
          /\ drive_status_v11' = [drive_status_v11 EXCEPT ![drive_id] = TRUE]
          /\ shadow_status' = [shadow_status EXCEPT ![drive_id] = TRUE]
    /\ worker' = IF worker.i < Len(worker.offline_drives)
                 THEN [worker EXCEPT !.pc = "rebuild", !.i = worker.i + 1]
                 ELSE [pc |-> "idle", offline_drives |-> << >>, i |-> 0]
    /\ UNCHANGED <<analyzer, observed_marking>>

\* check_dnode_failure_impact: original_status = self.drive_status.copy()
impact_copy(dnode_id) ==
    /\ analyzer.pc = "idle"
    /\ analyzer' = [pc |-> "copied", dnode_id |-> dnode_id,
                    original_status |-> drive_status_v11, result |-> << >>]
    /\ UNCHANGED <<drive_status_v11, worker, shadow_status, observed_marking>>

\* check_dnode_failure_impact: for drive_id in failed_drives:
\*     self.drive_status[drive_id] = False
impact_mark ==
    /\ analyzer.pc = "copied"
    /\ drive_status_v11' =
           [d \in Drives_v11 |->
               IF In(d, dnodes_v11[analyzer.dnode_id]) THEN FALSE
               ELSE drive_status_v11[d]]
    /\ analyzer' = [analyzer EXCEPT !.pc = "marked"]
    /\ UNCHANGED <<worker, shadow_status, observed_marking>>

\* check_dnode_failure_impact: self.check_data_integrity()
impact_check ==
    /\ analyzer.pc = "marked"
    /\ analyzer' = [analyzer EXCEPT
                       !.pc = "checked",
                       !.result = check_data_integrity_v11(drive_status_v11)]
    /\ UNCHANGED <<drive_status_v11, worker, shadow_status, observed_marking>>

\* check_dnode_failure_impact: self.drive_status = original_status; return
impact_restore ==
    /\ analyzer.pc = "checked"
    /\ drive_status_v11' = analyzer.original_status
    /\ analyzer' = [pc |-> "idle", dnode_id |-> -1, original_status |-> << >>,
                    result |-> << >>]
    /\ UNCHANGED <<worker, shadow_status, observed_marking>>

Next_v11 ==
    \/ \E d \in ToggleDrives_v11 : toggle_drive_v11(d) /\ UNCHANGED idle156
    \/ rebuild_all_v11 /\ UNCHANGED idle156
    \/ worker_rebuild_drive /\ UNCHANGED idle156
    \/ worker_bring_online /\ UNCHANGED idle156
    \/ \E n \in TestDnodes_v11 : impact_copy(n) /\ UNCHANGED idle156
    \/ impact_mark /\ UNCHANGED idle156
    \/ impact_check /\ UNCHANGED idle156
    \/ impact_restore /\ UNCHANGED idle156

Spec_v11 == Init /\ [][Next_v11]_vars

\* ------------------------------------------------------------------------
\* The 156-drive variant: drives are toggled and files are written, one
\* handler at a time
\* ------------------------------------------------------------------------
\* two data drives of group 0, one of group 1, the parity drive of group 0
WriteToggles_v11 == {0, 1, 14, 142}

\* StorageGUI.load_file with write_thread and write_complete
WriteData_v11(file_data) ==
    /\ \E r \in {write_data_v11(drive_files_v11, drive_status_v11, file_data)} :
          /\ drive_files_v11' = r.files
          /\ last_v11' = [op |-> "write_data", ok |-> r.ok]
    /\ UNCHANGED <<drive_status_v11, analyzer, worker, shadow_status,
                   observed_marking>>

NextWrite_v11 ==
    \/ \E d \in WriteToggles_v11 :
           /\ toggle_drive_v11(d)
           /\ last_v11' = [op |-> "toggle_drive", ok |-> TRUE]
           /\ UNCHANGED <<vars484, threads, probe, drive_files_v11>>
    \/ \E f \in InputFiles_v11 :
           WriteData_v11(f) /\ UNCHANGED <<vars484, threads, probe>>

SpecWrite_v11 == Init /\ [][NextWrite_v11]_vars

\* ------------------------------------------------------------------------
\* The 156-drive variant: drives fail after a write and are rebuilt
\* ------------------------------------------------------------------------
\* two data drives of group 0, the group's local-parity drive, the first
\* global-parity drive
RebuildToggles_v11 == {0, 1, 142, 152}
RebuildFiles_v11 == {Pattern(8 * chunk_size, 7)}

\* the drive rebuild_animation takes next: the lowest offline drive
NextOffline_v11 ==
    CHOOSE d \in Drives_v11 :
        /\ ~drive_status_v11[d]
        /\ \A e \in Drives_v11 : ~drive_status_v11[e] => d <= e

\* StorageGUI.rebuild_all, one iteration of rebuild_animation:
\* self.storage.rebuild_drive(drive_id), then the drive is brought online
RebuildDrive_v11 ==
    /\ \E d \in Drives_v11 : ~drive_status_v11[d]
    /\ check_data_integrity_v11(drive_status_v11).recoverable
    /\ \E drive_id \in {NextOffline_v11} :
          /\ drive_files_v11' = rebuild_drive_v11(drive_files_v11,
                                    drive_status_v11, drive_id)
          /\ drive_status_v11' = [drive_status_v11 EXCEPT ![drive_id] = TRUE]
          /\ shadow_status' = [shadow_status EXCEPT ![drive_id] = TRUE]
    /\ last_v11' = [op |-> "rebuild_drive", ok |-> TRUE]
    /\ UNCHANGED <<analyzer, worker, observed_marking>>

NextRebuild_v11 ==
    \/ \E d \in RebuildToggles_v11 :
           /\ toggle_drive_v11(d)
           /\ last_v11' = [op |-> "toggle_drive", ok |-> TRUE]
           /\ UNCHANGED <<vars484, threads, probe, drive_files_v11>>
    \/ \E f \in RebuildFiles_v11 :
           WriteData_v11(f) /\ UNCHANGED <<vars484, threads, probe>>
    \/ RebuildDrive_v11 /\ UNCHANGED <<vars484, threads, probe>>

SpecRebuild_v11 == Init /\ [][NextRebuild_v11]_vars

\* ------------------------------------------------------------------------
\* Properties
\* ------------------------------------------------------------------------
OnlineDataDrives == SelectSeq(get_all_data_drives, LAMBDA d : drive_status[d])

\* chunk i of P is the XOR of chunk i over the online data drives of G, for
\* every local group G with a parity drive P and every chunk slot i
ParityRelation ==
    \A b \in Dboxes : \A g \in 1..local_groups_per_dbox :
        LET group == dboxes[b].local_groups[g]
            online == SelectSeq(group.data_drives, LAMBDA d : drive_status[d])
        IN group.parity_drive # -1 =>
               \A i \in 0..((drive_size \div chunk_size) - 1) :
                   ReadAt(drive_files[group.parity_drive], i * chunk_size,
                          chunk_size)
                       = calculate_parity(
                             [k \in 1..Len(online) |->
                                 ReadAt(drive_files[online[k]], i * chunk_size,
                                        chunk_size)])

\* C1: right after any successful write, in Normal mode or HA mode, every
\* local group's parity drive holds, chunk by chunk, the XOR of the group's
\* online data drives.
C1_ParityAfterWrite ==
    (last.op = "write_files" /\ last.ok) => ParityRelation

\* the group of Dbox-local index g (1..3) that lists data drive D
GroupOf(D) ==
    LET dbox == dboxes[get_dbox_for_drive(D)]
    IN GroupOfData(dbox, D)

\* D is the one offline data drive of a group whose parity drive and other
\* data drives are online
SingleFailure(D) ==
    /\ get_drive_type(D) = "Data"
    /\ ~drive_status[D]
    /\ Len(GroupOf(D)) > 0
    /\ GroupOf(D)[1].parity_drive # -1
    /\ drive_status[GroupOf(D)[1].parity_drive]
    /\ \A d \in Elems(GroupOf(D)[1].data_drives) : d # D => drive_status[d]

\* C2: whatever writes and toggles came before, rebuild_drives([D], ...)
\* of the one offline data drive D of a group whose parity drive and other
\* data drives are online leaves D with the bytes it held when it went
\* offline.
C2_RebuildRestores ==
    [][(/\ last'.op = "rebuild_drives"
        /\ Len(last'.arg) = 1
        /\ SingleFailure(last'.arg[1]))
           => drive_files'[last'.arg[1]] = held[last'.arg[1]]]_vars

\* C3: a Normal-mode write_files call is rejected for capacity exactly when
\* the chunk-padded packed input is larger than the online data drives
\* together.
C3_CapacityRejection ==
    (last.op = "write_files" /\ ~last.flag) =>
        ((~last.ok /\ last.msg = "Files too large")
            <=> PaddedSize(Len(PackFiles(last.arg, 1)))
                    > Len(OnlineDataDrives) * drive_size)

\* C4: a write_files call that returns failure leaves the bytes of every
\* drive as they were before the call.
C4_FailedWriteTouchesNothing ==
    [][(last'.op = "write_files" /\ ~last'.ok) => drive_files' = drive_files]_vars

\* a write is refused for want of 18 HA drives while drive 0 holds data
C4_Witness ==
    /\ last.op = "write_files"
    /\ ~last.ok
    /\ last.msg = "HA mode requires 18 drives"
    /\ drive_files[0] # Zeros(drive_size)

\* C5: in the 156-drive variant, when exactly three data drives of one
\* local group are offline and every other drive is online,
\* check_data_integrity returns recoverable = false and lists that group.
C5_ThreeOfflineInOneGroup ==
    \A g \in 0..(local_group_count_v11 - 1) :
        LET offline == {d \in Drives_v11 : ~drive_status_v11[d]}
            r == check_data_integrity_v11(drive_status_v11)
        IN (/\ Cardinality(offline) = 3
            /\ offline \subseteq Elems(local_groups_v11[g].data_drives))
               => (~r.recoverable /\ In(g, r.vulnerable))

\* the Dboxes with a local group of more than 2 offline data drives
DboxesBeyondParity ==
    {b \in Dboxes :
        \E g \in 1..local_groups_per_dbox :
            Cardinality({d \in Elems(dboxes[b].local_groups[g].data_drives) :
                            ~drive_status[d]}) > 2}

\* C6: in the 484-drive variant check_data_integrity returns recoverable =
\* false exactly when some Dbox has a local group with more than 2 offline
\* data drives, and its vulnerable list holds exactly the ids of those
\* Dboxes, each once; with every drive online it returns true and an empty
\* list.
C6_IntegrityVerdict ==
    LET r == check_data_integrity(drive_status)
    IN /\ r.recoverable = (DboxesBeyondParity = {})
       /\ Elems(r.vulnerable) = DboxesBeyondParity
       /\ Len(r.vulnerable) = Cardinality(DboxesBeyondParity)
       /\ (\A d \in Drives : drive_status[d])
              => (r.recoverable /\ r.vulnerable = << >>)

\* exactly three data drives of group 0 of Dbox 0 are offline and the
\* verdict names Dbox 0
C6_Witness ==
    /\ {d \in Drives : ~drive_status[d]} = {0, 1, 2}
    /\ ~check_data_integrity(drive_status).recoverable
    /\ check_data_integrity(drive_status).vulnerable = <<0>>

\* C7: after check_dnode_failure_impact has returned every online flag is
\* what the toggles and the rebuild worker made it, and the worker never
\* reads a flag the analyzer has marked.
C7_AnalysisLeavesStatus ==
    /\ analyzer.pc = "idle" => drive_status_v11 = shadow_status
    /\ ~observed_marking

\* C8: toggle_drive and toggle_dbox change only online flags: the bytes of
\* every drive are the same after the toggle as before.
C8_TogglesKeepContents ==
    [][last'.op \in {"toggle_drive", "toggle_dbox"}
           => drive_files' = drive_files]_vars

\* drive 0, holding data, went offline and a toggle has just brought the
\* last offline drive back
C8_Witness ==
    /\ last.op = "toggle_drive"
    /\ \A d \in Drives : drive_status[d]
    /\ held[0] # Zeros(drive_size)
    /\ drive_files[0] = held[0]

\* the two lowest-numbered online data drives of Dbox b
TwoLowestOnline(b) ==
    Slice(SelectSeq(dboxes[b].data_drives, LAMBDA d : drive_status[d]), 0, 2)

\* the drives C9 expects: two per Dbox from the first nine Dboxes
RECURSIVE ExpectedHADrives(_)
ExpectedHADrives(n) ==
    IF n = 0 THEN << >> ELSE ExpectedHADrives(n - 1) \o TwoLowestOnline(n - 1)

\* C9: an HA-mode write that passes the capacity check stripes over the two
\* lowest-numbered online data drives of each of the first 9 Dboxes when
\* each has two, and is refused for want of 18 drives exactly when one of
\* them has not.
C9_HASelection ==
    (last.op = "write_files" /\ last.flag /\ last.msg # "Files too large") =>
        IF Len(ExpectedHADrives(ha_parity_span)) = ha_drives
        THEN last.ok /\ last.used = ExpectedHADrives(ha_parity_span)
        ELSE ~last.ok /\ last.msg = "HA mode requires 18 drives"

\* the first chunks_per_drive chunks of each listed drive, drive after drive
UsedParts(drive_list, chunks_per_drive) ==
    LET part == chunks_per_drive * chunk_size
    IN List([j \in 1..(Len(drive_list) * part) |->
                drive_files[drive_list[((j - 1) \div part) + 1]]
                           [((j - 1) % part) + 1]])

\* C10: after a successful Normal-mode write of the packed buffer B, the
\* used parts of the online data drives, concatenated in drive order, are B
\* followed by zeros only, and the rest of each of these drives is zero.
C10_NormalRoundTrip ==
    (last.op = "write_files" /\ last.ok /\ ~last.flag) =>
        LET B == PackFiles(last.arg, 1)
            online == OnlineDataDrives
            N == Len(online)
            num_chunks == PaddedSize(Len(B)) \div chunk_size
            chunks_per_drive == (num_chunks + N - 1) \div N
            all == UsedParts(online, chunks_per_drive)
        IN /\ N >= 1
           /\ Slice(all, 0, Len(B)) = B
           /\ Slice(all, Len(B), Len(all)) = Zeros(Len(all) - Len(B))
           /\ \A k \in 1..N :
                  Slice(drive_files[online[k]], chunks_per_drive * chunk_size,
                        Len(drive_files[online[k]]))
                      = Zeros(Len(drive_files[online[k]])
                                  - chunks_per_drive * chunk_size)

\* a buffer of more chunks than online data drives has been written in
\* Normal mode
C10_Witness ==
    /\ last.op = "write_files"
    /\ last.ok
    /\ ~last.flag
    /\ PaddedSize(Len(PackFiles(last.arg, 1))) \div chunk_size
           > Len(OnlineDataDrives)

\* C11: a write or rebuild pass that ran with no other worker alive leaves
\* the drives as the same call leaves them when no drive is toggled while
\* it runs.
C11_PassUsesStartStatus ==
    \A t \in Slots :
        (threads[t].pc = "done" /\ ~threads[t].overlapped)
            => drive_files = threads[t].expected

\* thread t has written drive contents and has not returned
Mutating(t) ==
    \/ threads[t].kind = "write" /\ threads[t].pc \in {"local", "global"}
    \/ threads[t].kind = "rebuild" /\ threads[t].pc = "loop" /\ threads[t].i > 1

\* C12: no two write workers, and no two rebuild workers, are changing drive
\* contents at the same time: the one started second does not write a
\* drive before the first has returned.
C12_OneInFlight ==
    \A t, u \in Slots :
        (t # u /\ threads[t].kind = threads[u].kind)
            => ~(Mutating(t) /\ Mutating(u))

\* C13: a write leaves the bytes of every data drive that is offline when
\* the write starts as they were, in the 484-drive variant and in the
\* 156-drive variant.
C13_WriteSkipsOfflineDrives ==
    [][/\ last'.op = "write_files"
           => \A d \in Elems(get_all_data_drives) :
                  ~drive_status[d] => drive_files'[d] = drive_files[d]
       /\ last_v11'.op = "write_data"
           => \A d \in 0..(num_data_drives_v11 - 1) :
                  ~drive_status_v11[d]
                      => drive_files_v11'[d] = drive_files_v11[d]]_vars

\* the data drives of all local groups of the 484-drive topology, and how
\* many entries the groups' lists have together
GroupedDrives ==
    UNION {Elems(dboxes[b].local_groups[g].data_drives) :
              b \in Dboxes, g \in 1..local_groups_per_dbox}

RECURSIVE SumLen(_, _)
SumLen(lists, n) == IF n = 0 THEN 0 ELSE SumLen(lists, n - 1) + Len(lists[n])

GroupedEntries ==
    SumLen([k \in 1..(dboxes_count * local_groups_per_dbox) |->
               dboxes[(k - 1) \div local_groups_per_dbox]
                   .local_groups[((k - 1) % local_groups_per_dbox) + 1]
                   .data_drives],
           dboxes_count * local_groups_per_dbox)

\* the same for the 156-drive topology
GroupedDrives_v11 ==
    UNION {Elems(local_groups_v11[i].data_drives) :
              i \in 0..(local_group_count_v11 - 1)}

GroupedEntries_v11 ==
    SumLen([k \in 1..local_group_count_v11 |->
               local_groups_v11[k - 1].data_drives],
           local_group_count_v11)

\* C14: in the 484-drive and in the 156-drive topology the data-drive lists
\* of the local groups are pairwise disjoint and together are the data
\* drives: every data drive is in exactly one local group, and the type
\* looked up for a data drive of the 156-drive variant names its group.
C14_OneGroupPerDataDrive ==
    /\ (probe.variant = "156" /\ probe.drive_id < num_data_drives_v11)
           => probe.drive_type # "Data"
    /\ GroupedDrives = Elems(get_all_data_drives)
    /\ GroupedEntries = Cardinality(GroupedDrives)
    /\ GroupedDrives_v11 = 0..(num_data_drives_v11 - 1)
    /\ GroupedEntries_v11 = Cardinality(GroupedDrives_v11)

\* the role lists of Dbox b
RoleLists(b) ==
    <<dboxes[b].data_drives, dboxes[b].local_parity_drives,
      <<dboxes[b].global_parity_drive>>, dboxes[b].spare_drives>>

\* the role lists of every Dbox are without repetition, pairwise disjoint
\* and together the ids 44*b .. 44*b + 43
DboxPartition ==
    \A b \in Dboxes :
        /\ \A r \in 1..4 :
               Cardinality(Elems(RoleLists(b)[r])) = Len(RoleLists(b)[r])
        /\ \A r, q \in 1..4 :
               r # q => Elems(RoleLists(b)[r]) \cap Elems(RoleLists(b)[q]) = {}
        /\ UNION {Elems(RoleLists(b)[r]) : r \in 1..4}
               = (drives_per_dbox * b)..(drives_per_dbox * b + drives_per_dbox - 1)

\* every drive id is in exactly one role list of exactly one Dbox
OneRolePerDrive ==
    \A id \in Drives :
        Cardinality({br \in Dboxes \X (1..4) :
                        In(id, RoleLists(br[1])[br[2]])}) = 1

RoleNames == <<"Data", "Local Parity", "Global Parity", "Hot Spare">>

\* C15: the role lists of each Dbox partition its id range 44*b .. 44*b + 43,
\* every drive id has exactly one role, and the type and the Dbox looked up
\* for a drive are the role list and the Dbox that hold it.
C15_LayoutPartition ==
    /\ DboxPartition
    /\ OneRolePerDrive
    /\ probe.variant = "484" =>
           \E b \in Dboxes : \E r \in 1..4 :
               /\ In(probe.drive_id, RoleLists(b)[r])
               /\ probe.drive_type = RoleNames[r]
               /\ probe.dbox_id = b

\* the last drive has been looked up: a hot spare of Dbox 10
C15_Witness ==
    /\ probe.variant = "484"
    /\ probe.drive_id = total_drives - 1
    /\ probe.drive_type = "Hot Spare"
    /\ probe.dbox_id = dboxes_count - 1

\* the drives that have an entry in a rebuild log
Logged(rebuild_info) ==
    {rebuild_info[k].drive : k \in 1..Len(rebuild_info)}

\* C16: a call of rebuild_drives leaves every requested drive that is online
\* as it is: same contents, still online, no entry in the log; a call for
\* online drives only records no read source either, whatever bring_online.
C16_RebuildSkipsOnlineDrives ==
    [][(steps' # steps /\ last'.op = "rebuild_drives") =>
          /\ \A d \in Elems(last'.arg) :
                 drive_status[d] =>
                     /\ drive_files'[d] = drive_files[d]
                     /\ drive_status'[d]
                     /\ d \notin Logged(rebuilt'.rebuild_info)
          /\ (\A d \in Elems(last'.arg) : drive_status[d]) =>
                 /\ rebuilt'.drives_read = {}
                 /\ rebuilt'.rebuild_info = << >>]_vars

\* rebuild_drives([0], bring_online=True) has returned for drive 0 online
\* and holding written data
C16_Witness ==
    /\ last.op = "rebuild_drives"
    /\ last.arg = <<0>>
    /\ last.flag
    /\ drive_status[0]
    /\ rebuilt.rebuild_info = << >>
    /\ drive_files[0] # Zeros(drive_size)

\* C17: the drives rebuild_drives returns are exactly the drives whose files
\* the call opened and read: none that was passed over as offline, none
\* missing.
C17_ReportedSourcesWereRead ==
    last.op = "rebuild_drives" => rebuilt.drives_read = rebuilt.opened

\* the hot spares of all Dboxes
SpareDrives ==
    UNION {Elems(dboxes[b].spare_drives) : b \in Dboxes}

DegradedFailure(D) ==
    /\ get_drive_type(D) = "Data"
    /\ ~drive_status[D]
    /\ held[D] # Zeros(drive_size)
    /\ Len(GroupOf(D)) > 0
    /\ \/ ~drive_status[GroupOf(D)[1].parity_drive]
       \/ \E d \in Elems(GroupOf(D)[1].data_drives) : d # D /\ ~drive_status[d]

\* C19: rebuild_drives([D], ...) of an offline data drive D whose group's
\* parity drive is offline, or whose group has another offline data drive,
\* reports no error, leaves D with contents that differ from those it held
\* when it went offline, and reads nothing from the global parity drive of
\* the Dbox.
C19_DegradedRebuildIsGarbage ==
    [][\A D \in RebuildSingles :
          (/\ steps' # steps
           /\ last'.op = "rebuild_drives"
           /\ last'.arg = <<D>>
           /\ DegradedFailure(D)) =>
              /\ last'.ok
              /\ drive_files'[D] # held[D]
              /\ dboxes[get_dbox_for_drive(D)].global_parity_drive
                     \notin (rebuilt'.opened \cup rebuilt'.drives_read)]_vars

\* chunk i of the global parity drive of every Dbox is the XOR of chunk i of
\* the online data drives of the Dbox, byte for byte as stored
PlainGlobalParity ==
    \A b \in Dboxes :
        \A i \in 0..((drive_size \div chunk_size) - 1) :
            ReadAt(drive_files[dboxes[b].global_parity_drive], i * chunk_size,
                   chunk_size)
                = calculate_parity(
                      OnlineChunks(drive_files, drive_status,
                                   dboxes[b].data_drives, i))

\* C20: right after a successful Normal-mode write every Dbox's global parity
\* drive holds, chunk by chunk, the plain XOR of the online data drives of
\* the whole Dbox.
C20_GlobalParityIsPlainXor ==
    (last.op = "write_files" /\ last.ok /\ ~last.flag) => PlainGlobalParity

\* C21: in every reachable state every drive file is exactly drive_size bytes
\* long, that is drive_size / chunk_size chunk slots: no accepted write puts
\* more chunks on a drive, and a written drive is padded to drive_size.
C21_DriveHoldsCapacity ==
    \A d \in Drives : Len(drive_files[d]) = drive_size

\* the padded buffer write_files hands to the striping step
PaddedBuffer(input_files) ==
    LET combined_data == PackFiles(input_files, 1)
    IN Ljust(combined_data, PaddedSize(Len(combined_data)))

\* C22: right after a successful Normal-mode write over the N online data
\* drives, chunk k of the padded buffer is at slot k div N of the
\* (k mod N)-th online data drive, for every chunk k of the buffer.
C22_RoundRobin ==
    (last.op = "write_files" /\ last.ok /\ ~last.flag) =>
        LET data == PaddedBuffer(last.arg)
            N == Len(last.used)
        IN \A k \in 0..((Len(data) \div chunk_size) - 1) :
               ReadAt(drive_files[last.used[(k % N) + 1]],
                      (k \div N) * chunk_size, chunk_size)
                   = Slice(data, k * chunk_size, k * chunk_size + chunk_size)

\* chunk i of an HA write over the selected drives s lands on slot q of
\* drive d
LandsOn(s, num_chunks, d, q) ==
    \E i \in 0..(num_chunks - 1) : s[(i % Len(s)) + 1] = d /\ i \div Len(s) = q

\* C23: a successful HA-mode write over the selected drives s stores chunk i
\* of the padded buffer at slot i div 18 of drive s[i mod 18], for every
\* chunk i, and leaves every other slot of every data drive, and the length
\* of every data drive, as it was.
C23_HAStriping ==
    [][(steps' # steps /\ last'.op = "write_files" /\ last'.ok /\ last'.flag) =>
          LET data == PaddedBuffer(last'.arg)
              s == last'.used
              num_chunks == Len(data) \div chunk_size
          IN /\ Len(s) = ha_drives
             /\ \A i \in 0..(num_chunks - 1) :
                    ReadAt(drive_files'[s[(i % Len(s)) + 1]],
                           (i \div Len(s)) * chunk_size, chunk_size)
                        = Slice(data, i * chunk_size, i * chunk_size + chunk_size)
             /\ \A d \in Elems(get_all_data_drives) :
                    /\ Len(drive_files'[d]) = Len(drive_files[d])
                    /\ \A q \in 0..((Len(drive_files[d]) \div chunk_size) - 1) :
                           ~LandsOn(s, num_chunks, d, q) =>
                               ReadAt(drive_files'[d], q * chunk_size, chunk_size)
                                   = ReadAt(drive_files[d], q * chunk_size,
                                            chunk_size)]_vars

\* an HA-mode write has succeeded over drive 0 and others while drive 2,
\* not selected, holds the data of a Normal-mode write
C23_Witness ==
    /\ last.op = "write_files" /\ last.ok /\ last.flag
    /\ In(0, last.used) /\ ~In(2, last.used)
    /\ drive_files[2] # Zeros(drive_size)

\* the drive files right after a successful Normal-mode write of one of the
\* input files with every drive online (such a write rewrites every data,
\* parity and spare drive, so what the drives held before does not show)
WrittenPools ==
    LET blank == [d \in Drives |-> Zeros(drive_size)]
        online == [d \in Drives |-> TRUE]
        done == {write_files(blank, online, FALSE, << >>, f) : f \in InputFiles}
    IN {r.files : r \in {w \in done : w.ok}}

\* every offline drive, in ascending order (StorageGUI.rebuild_drives)
OfflineDrives ==
    SelectSeq(Range(0, total_drives), LAMBDA i : ~drive_status[i])

\* C24: when the drives hold what a Normal-mode write with all drives online
\* left, some drives are offline and check_data_integrity reports
\* recoverable, rebuild_drives(all offline drives, bring_online=True)
\* leaves every data drive with the contents it had after the write.
C24_RecoverableMeansRestored ==
    [][(/\ steps' # steps
        /\ last'.op = "rebuild_drives" /\ last'.flag
        /\ last'.arg = OfflineDrives
        /\ drive_files \in WrittenPools
        /\ check_data_integrity(drive_status).recoverable) =>
           \A d \in Elems(get_all_data_drives) :
               drive_files'[d] = drive_files[d]]_vars

\* the local parity relation of one group in the given pool
GroupParityHolds(files, status, group) ==
    \A i \in 0..((drive_size \div chunk_size) - 1) :
        ReadAt(files[group.parity_drive], i * chunk_size, chunk_size)
            = calculate_parity(OnlineChunks(files, status, group.data_drives, i))

\* the local groups a drive belongs to as data drive or as parity drive
GroupsOf(d) ==
    LET dbox == dboxes[get_dbox_for_drive(d)]
    IN Elems(GroupOfData(dbox, d)) \cup Elems(GroupOfParity(dbox, d))

\* C25: right after rebuild_drives(..., bring_online=True) has rebuilt a
\* data drive or a local-parity drive, whatever the pool held before, the
\* parity drive of that drive's group holds, chunk by chunk, the XOR of the
\* group's online data drives.
C25_RebuildRestoresParityRelation ==
    [][(steps' # steps /\ last'.op = "rebuild_drives" /\ last'.flag) =>
          \A d \in Logged(rebuilt'.rebuild_info) :
              \A group \in GroupsOf(d) :
                  GroupParityHolds(drive_files', drive_status', group)]_vars

\* two data drives of one group, offline over written data, have been
\* rebuilt and brought online
C25_Witness ==
    /\ last.op = "rebuild_drives" /\ last.flag
    /\ {0, 1} \subseteq Logged(rebuilt.rebuild_info)
    /\ drive_files[2] # Zeros(drive_size)

\* the list read from its end
Reversed(l) == [k \in 1..Len(l) |-> l[Len(l) + 1 - k]]

\* C26: the drive files and flags rebuild_drives(F, bring_online=True)
\* leaves are those a call with the same drives listed in the opposite
\* order leaves, from the same pool.
C26_RebuildOrderIrrelevant ==
    [][(steps' # steps /\ last'.op = "rebuild_drives" /\ last'.flag) =>
          LET other == rebuild_drives(drive_files, drive_status,
                                      Reversed(last'.arg), TRUE)
          IN /\ other.files = drive_files'
             /\ other.status = drive_status']_vars

\* C27: a rebuild of one drive leaves the bytes of every other drive as
\* they were: rebuild_drive(d) of the 156-drive variant and
\* rebuild_drives([d], ...) of the 484-drive variant.
C27_RebuildTouchesOneDrive ==
    [][/\ (last_v11'.op = "rebuild_drive"
              /\ drive_status_v11' # drive_status_v11) =>
               \A e \in Drives_v11 \ {NextOffline_v11} :
                   drive_files_v11'[e] = drive_files_v11[e]
       /\ (steps' # steps /\ last'.op = "rebuild_drives"
              /\ Len(last'.arg) = 1) =>
               \A e \in Drives \ {last'.arg[1]} :
                   drive_files'[e] = drive_files[e]]_vars

\* C28: a write_files call, in Normal mode or HA mode, leaves the bytes of
\* every local-parity, global-parity and spare drive that is offline as they
\* were.
C28_WriteSkipsOfflineParity ==
    [][(steps' # steps /\ last'.op = "write_files") =>
          \A d \in Drives :
              (~drive_status[d] /\ get_drive_type(d) # "Data") =>
                  drive_files'[d] = drive_files[d]]_vars

\* C29: a write_files call that is rejected changes neither what
\* retrieve_file returns nor the used and available figures of
\* get_storage_stats.
C29_RejectedWriteKeepsStoredFile ==
    [][(steps' # steps /\ last'.op = "write_files" /\ ~last'.ok) =>
          /\ retrieve_file(stored_file_data') = retrieve_file(stored_file_data)
          /\ get_storage_stats(ha_mode', stored_file_data').used
                 = get_storage_stats(ha_mode, stored_file_data).used
          /\ get_storage_stats(ha_mode', stored_file_data').available
                 = get_storage_stats(ha_mode, stored_file_data).available]_vars

\* the drive files the last write leaves in a second pool with the same
\* flags and mode whose drives held nothing but zero bytes
WrittenOnBlankPool ==
    write_files([d \in Drives |-> Zeros(drive_size)], drive_status,
                last.flag, << >>, last.arg).files

\* C30: right after a successful write, in Normal mode or HA mode, every
\* data drive the write selected holds what the same write leaves on it in
\* a pool with the same flags that held other contents before: nothing of
\* an earlier write is left on it.
C30_WriteIsDeterministic ==
    (last.op = "write_files" /\ last.ok) =>
        \E other \in {WrittenOnBlankPool} :
            \A d \in Elems(last.used) : drive_files[d] = other[d]

TypeOK ==
    /\ \A d \in Drives : Len(drive_files[d]) >= drive_size
    /\ drive_status \in [Drives -> BOOLEAN]

====
